---------------------------- MODULE Spec2Model ----------------------------
(***************************************************************************)
(* EduSafe: the merge-and-score pipeline of src/utils/riskCalculator.ts,    *)
(* and the App component that feeds it from three CSV uploads.             *)
(*                                                                         *)
(* Student identifiers are JavaScript strings, modelled as sequences of    *)
(* code points.  Numbers are integers (the CSV columns of the examples);   *)
(* the one non-integer the code computes, averageScore = sum / length, is  *)
(* kept exact as a fraction [num, den].                                    *)
(***************************************************************************)
EXTENDS Integers, Sequences, FiniteSets, TLC

VARIABLES
    attendance,   \* AttendanceRecord[]  : first argument of the pipeline
    assessment,   \* AssessmentRecord[]  : second argument
    attempts,     \* AttemptsRecord[]    : third argument
    profiles,     \* StudentProfile[]    : what mergeStudentData returned
    riskProfiles, \* StudentRiskProfile[]: what analyzeAllStudents returned
    distribution, \* what getRiskDistribution returned
    profile,      \* StudentProfile      : argument of calculateRiskScore
    scored,       \* <<StudentRiskProfile>> once calculateRiskScore returned
    score,        \* number              : argument of getRiskLevel
    level,        \* <<riskLevel>> once getRiskLevel returned
    pc,           \* which call has returned
    uploadState,      \* App: per source <<>> (null) or <<the loaded list>>
    parsing,          \* CSVUpload: the Papa.parse calls that have not called back
    studentProfiles,  \* App: the memoised analysis, as last rendered
    riskDistribution, \* App: the memoised distribution, as last rendered
    isDismissed,      \* AlertBanner: its state (FALSE whenever it is not mounted)
    dismissedBefore   \* history: the dismiss button has been clicked

pipelineVars == <<attendance, assessment, attempts, profiles, riskProfiles,
                  distribution, profile, scored, score, level, pc>>

appVars == <<uploadState, parsing, studentProfiles, riskDistribution,
             isDismissed, dismissedBefore>>

vars == <<pipelineVars, appVars>>

-----------------------------------------------------------------------------
(* Bounds of the model *)

\* total number of records over the three input lists
MaxRecords == 3

\* getRiskLevel is applied to every integer in -ScoreMargin .. 100 + ScoreMargin
ScoreMargin == 10

\* number of Papa.parse calls that may be waiting for their callback at once
MaxParsing == 2

-----------------------------------------------------------------------------
(* Strings and String.prototype.localeCompare *)

\* "a", U+00E9 (e with acute, precomposed), "e" + U+0301 (combining acute), "z"
IdA == <<97>>
IdEComposed == <<233>>
IdEDecomposed == <<101, 769>>
IdZ == <<122>>

StudentIds == {IdA, IdEComposed, IdEDecomposed, IdZ}

\* canonical decomposition of one code point (over the alphabet of StudentIds)
Decompose(cp) == IF cp = 233 THEN <<101, 769>> ELSE <<cp>>

RECURSIVE NFD(_)
NFD(s) == IF s = <<>> THEN <<>> ELSE Decompose(Head(s)) \o NFD(Tail(s))

IsCombining(cp) == cp = 769

\* primary collation key: the base letters (for lower-case Latin letters the
\* primary weights are in code point order)
PrimaryKey(s) == SelectSeq(NFD(s), LAMBDA cp : ~IsCombining(cp))

\* secondary collation key: per base letter, whether an accent follows it
RECURSIVE Accents(_)
Accents(d) ==
    IF d = <<>> THEN <<>>
    ELSE IF Len(d) >= 2 /\ IsCombining(d[2])
         THEN <<1>> \o Accents(Tail(Tail(d)))
         ELSE <<0>> \o Accents(Tail(d))

SecondaryKey(s) == Accents(NFD(s))

RECURSIVE LexCompare(_, _)
LexCompare(u, v) ==
    IF u = <<>> /\ v = <<>> THEN 0
    ELSE IF u = <<>> THEN -1
    ELSE IF v = <<>> THEN 1
    ELSE IF Head(u) < Head(v) THEN -1
    ELSE IF Head(u) > Head(v) THEN 1
    ELSE LexCompare(Tail(u), Tail(v))

\* a.localeCompare(b): negative, zero or positive.  Canonically equivalent
\* strings compare as 0 although they are different strings.
localeCompare(a, b) ==
    LET p == LexCompare(PrimaryKey(a), PrimaryKey(b))
    IN  IF p # 0 THEN p ELSE LexCompare(SecondaryKey(a), SecondaryKey(b))

-----------------------------------------------------------------------------
(* Map and Set, in insertion order *)

\* a variant whose Map keeps the record stored first under id
RECURSIVE MapGetFirst(_, _)
MapGetFirst(list, id) ==
    IF list = <<>> THEN <<>>
    ELSE IF Head(list).StudentID = id THEN <<Head(list)>>
    ELSE MapGetFirst(Tail(list), id)

\* new Map(list.map(a => [a.StudentID, a])).get(id): <<>> is undefined,
\* <<r>> the record stored last under id
RECURSIVE MapGet(_, _)
MapGet(list, id) ==
    IF list = <<>> THEN <<>>
    ELSE IF list[Len(list)].StudentID = id THEN <<list[Len(list)]>>
    ELSE MapGet(SubSeq(list, 1, Len(list) - 1), id)

\* [...new Set(ids)]: the distinct elements, in order of first occurrence
RECURSIVE SetOrder(_)
SetOrder(ids) ==
    IF ids = <<>> THEN <<>>
    ELSE LET front == SetOrder(SubSeq(ids, 1, Len(ids) - 1))
             last  == ids[Len(ids)]
         IN  IF \E i \in 1..Len(front) : front[i] = last
             THEN front ELSE Append(front, last)

StudentIDsOf(list) == [i \in 1..Len(list) |-> list[i].StudentID]

-----------------------------------------------------------------------------
(* mergeStudentData *)

\* a variant that forgets the third source when collecting the IDs
allStudentIdsOmitAttempts(attendanceList, assessmentList, attemptsList) ==
    SetOrder(StudentIDsOf(attendanceList) \o StudentIDsOf(assessmentList))

\* new Set([...attendance ids, ...assessment ids, ...attempts ids]), as iterated
allStudentIds(attendanceList, assessmentList, attemptsList) ==
    SetOrder(StudentIDsOf(attendanceList) \o StudentIDsOf(assessmentList)
             \o StudentIDsOf(attemptsList))

\* att?.AttendancePercentage ?? 0
AttendanceOf(att) == IF att = <<>> THEN 0 ELSE att[1].AttendancePercentage

\* a variant that takes the last two scores in the wrong order
TestScoresOfSwapped(assess) ==
    IF assess = <<>> THEN <<0, 0, 0>>
    ELSE <<assess[1].TestScore1, assess[1].TestScore3, assess[1].TestScore2>>

\* assess ? [assess.TestScore1, assess.TestScore2, assess.TestScore3] : [0, 0, 0]
TestScoresOf(assess) ==
    IF assess = <<>> THEN <<0, 0, 0>>
    ELSE <<assess[1].TestScore1, assess[1].TestScore2, assess[1].TestScore3>>

\* att2?.AttemptsUsed ?? 0
AttemptsUsedOf(att2) == IF att2 = <<>> THEN 0 ELSE att2[1].AttemptsUsed

RECURSIVE SumSeq(_)
SumSeq(xs) == IF xs = <<>> THEN 0 ELSE Head(xs) + SumSeq(Tail(xs))

\* testScores.reduce((a, b) => a + b, 0) / testScores.length, as a fraction
AverageOf(testScores) == [num |-> SumSeq(testScores), den |-> Len(testScores)]

\* the object pushed for one studentId
BuildProfile(studentId, attendanceList, assessmentList, attemptsList) ==
    LET att        == MapGet(attendanceList, studentId)
        assess     == MapGet(assessmentList, studentId)
        att2       == MapGet(attemptsList, studentId)
        testScores == TestScoresOf(assess)
    IN  [studentId    |-> studentId,
         attendance   |-> AttendanceOf(att),
         testScores   |-> testScores,
         averageScore |-> AverageOf(testScores),
         attemptsUsed |-> AttemptsUsedOf(att2)]

\* Array.prototype.sort is stable: an element goes behind every element the
\* comparator does not put it strictly before
RECURSIVE InsertByStudentId(_, _)
InsertByStudentId(sorted, p) ==
    IF sorted = <<>> THEN <<p>>
    ELSE LET last == sorted[Len(sorted)]
         IN  IF localeCompare(last.studentId, p.studentId) <= 0
             THEN Append(sorted, p)
             ELSE Append(InsertByStudentId(SubSeq(sorted, 1, Len(sorted) - 1), p),
                         last)

\* a variant that returns the profiles in the order they were pushed
SortByStudentIdOmitted(ps) == ps

\* profiles.sort((a, b) => a.studentId.localeCompare(b.studentId))
RECURSIVE SortByStudentId(_)
SortByStudentId(ps) ==
    IF ps = <<>> THEN <<>>
    ELSE InsertByStudentId(SortByStudentId(SubSeq(ps, 1, Len(ps) - 1)),
                           ps[Len(ps)])

mergeStudentData(attendanceList, assessmentList, attemptsList) ==
    LET ids    == allStudentIds(attendanceList, assessmentList, attemptsList)
        pushed == [i \in 1..Len(ids) |->
                     BuildProfile(ids[i], attendanceList, assessmentList,
                                  attemptsList)]
    IN  SortByStudentId(pushed)

-----------------------------------------------------------------------------
(* calculateRiskScore and getRiskLevel *)

\* q < n for a fraction q
FracLess(q, n) == q.num < n * q.den

\* x.toFixed(1) for a non-negative fraction: the digits before and after the
\* decimal point, rounded to the nearest tenth
ToFixed1(q) ==
    LET tenths == (20 * q.num + q.den) \div (2 * q.den)
    IN  <<tenths \div 10, tenths % 10>>

\* one rule that triggered: the running total and the flag list after it
Triggered(st, rule, points, description) ==
    [riskScore |-> st.riskScore + points,
     riskFlags |-> Append(st.riskFlags,
                          [rule |-> rule, points |-> points,
                           description |-> description])]

\* a variant that counts the threshold itself as low
LowAttendanceInclusive(p) == p.attendance <= 75

LowAttendance(p) == p.attendance < 75

LowTestAverage(p) == FracLess(p.averageScore, 40)

\* a variant that takes a repeated score for a decline
IsDecliningNonStrict(testScores) ==
    testScores[1] >= testScores[2] /\ testScores[2] >= testScores[3]

\* const [score1, score2, score3] = testScores; score1 > score2 && score2 > score3
IsDeclining(testScores) ==
    testScores[1] > testScores[2] /\ testScores[2] > testScores[3]

MultipleAttempts(p) == p.attemptsUsed >= 2

Rule1(st, p) ==
    IF LowAttendance(p)
    THEN Triggered(st, "Low Attendance", 30,
                   <<"Attendance is ", ToFixed1([num |-> p.attendance, den |-> 1]),
                     "% (below 75% threshold)">>)
    ELSE st

Rule2(st, p) ==
    IF LowTestAverage(p)
    THEN Triggered(st, "Low Test Average", 30,
                   <<"Average score is ", ToFixed1(p.averageScore),
                     "% (below 40% threshold)">>)
    ELSE st

Rule3(st, p) ==
    IF IsDeclining(p.testScores)
    THEN Triggered(st, "Declining Trend", 20,
                   <<"Test scores declining: ", p.testScores>>)
    ELSE st

Rule4(st, p) ==
    IF MultipleAttempts(p)
    THEN Triggered(st, "Multiple Attempts", 20,
                   <<"Used ", p.attemptsUsed, " attempts (threshold: 2)">>)
    ELSE st

\* a variant that evaluates the trend rule first
RulesAppliedTrendFirst(p) ==
    Rule4(Rule2(Rule1(Rule3([riskScore |-> 0, riskFlags |-> <<>>], p), p), p), p)

\* riskScore and riskFlags when the four rules have run, before the cap
RulesApplied(p) ==
    Rule4(Rule3(Rule2(Rule1([riskScore |-> 0, riskFlags |-> <<>>], p), p), p), p)

\* Math.min(riskScore, 100)
CapRiskScore(raw) == IF raw < 100 THEN raw ELSE 100

\* a variant that puts the score 60 in the upper category
getRiskLevelOpen60(s) ==
    IF s <= 30 THEN "safe"
    ELSE IF s < 60 THEN "watchlist"
    ELSE "at-risk"

\* a variant that puts the score 30 in the watchlist category
getRiskLevelOpen30(s) ==
    IF s < 30 THEN "safe"
    ELSE IF s <= 60 THEN "watchlist"
    ELSE "at-risk"

getRiskLevel(s) ==
    IF s <= 30 THEN "safe"
    ELSE IF s <= 60 THEN "watchlist"
    ELSE "at-risk"

calculateRiskScore(p) ==
    LET st        == RulesApplied(p)
        riskScore == CapRiskScore(st.riskScore)
    IN  [studentId    |-> p.studentId,
         attendance   |-> p.attendance,
         testScores   |-> p.testScores,
         averageScore |-> p.averageScore,
         attemptsUsed |-> p.attemptsUsed,
         riskScore    |-> riskScore,
         riskLevel    |-> getRiskLevel(riskScore),
         riskFlags    |-> st.riskFlags]

-----------------------------------------------------------------------------
(* analyzeAllStudents and getRiskDistribution *)

\* a variant whose sort puts an element before the elements it ties with
RECURSIVE InsertByRiskScoreUnstable(_, _)
InsertByRiskScoreUnstable(sorted, p) ==
    IF sorted = <<>> THEN <<p>>
    ELSE LET last == sorted[Len(sorted)]
         IN  IF p.riskScore - last.riskScore < 0
             THEN Append(sorted, p)
             ELSE Append(InsertByRiskScoreUnstable(
                             SubSeq(sorted, 1, Len(sorted) - 1), p), last)

\* the comparator (a, b) => b.riskScore - a.riskScore, under a stable sort
RECURSIVE InsertByRiskScore(_, _)
InsertByRiskScore(sorted, p) ==
    IF sorted = <<>> THEN <<p>>
    ELSE LET last == sorted[Len(sorted)]
         IN  IF p.riskScore - last.riskScore <= 0
             THEN Append(sorted, p)
             ELSE Append(InsertByRiskScore(SubSeq(sorted, 1, Len(sorted) - 1), p),
                         last)

\* riskProfiles.sort((a, b) => b.riskScore - a.riskScore)
RECURSIVE SortByRiskScore(_)
SortByRiskScore(ps) ==
    IF ps = <<>> THEN <<>>
    ELSE InsertByRiskScore(SortByRiskScore(SubSeq(ps, 1, Len(ps) - 1)),
                           ps[Len(ps)])

analyzeAllStudents(attendanceList, assessmentList, attemptsList) ==
    LET merged == mergeStudentData(attendanceList, assessmentList, attemptsList)
        mapped == [i \in 1..Len(merged) |-> calculateRiskScore(merged[i])]
    IN  SortByRiskScore(mapped)

\* profiles.filter(p => p.riskLevel === l).length
CountLevel(ps, l) == Cardinality({i \in 1..Len(ps) : ps[i].riskLevel = l})

\* a variant that counts every profile that is not safe as watchlist
getRiskDistributionNotSafe(ps) ==
    [safe      |-> CountLevel(ps, "safe"),
     watchlist |-> Len(ps) - CountLevel(ps, "safe"),
     atRisk    |-> CountLevel(ps, "at-risk")]

getRiskDistribution(ps) ==
    [safe      |-> CountLevel(ps, "safe"),
     watchlist |-> CountLevel(ps, "watchlist"),
     atRisk    |-> CountLevel(ps, "at-risk")]

-----------------------------------------------------------------------------
(* Inputs *)

AttendanceValues == {60, 90}
ScoreTriples == {<<80, 70, 60>>, <<30, 25, 20>>, <<80, 80, 70>>}
AttemptsValues == {1, 2}

AttendanceRecords ==
    {[StudentID |-> id, AttendancePercentage |-> v] :
        id \in StudentIds, v \in AttendanceValues}

AssessmentRecords ==
    {[StudentID |-> id, TestScore1 |-> t[1], TestScore2 |-> t[2],
      TestScore3 |-> t[3]] : id \in StudentIds, t \in ScoreTriples}

AttemptsRecords ==
    {[StudentID |-> id, AttemptsUsed |-> v] :
        id \in StudentIds, v \in AttemptsValues}

\* arguments of calculateRiskScore: values on both sides of every threshold
ProfileAttendance == {0, 74, 75, 90}
ProfileScores == {0, 39, 40, 41, 60, 70, 80}
ProfileAttempts == {0, 1, 2, 3}

ProfileInputs ==
    {[studentId    |-> IdA,
      attendance   |-> a,
      testScores   |-> t,
      averageScore |-> AverageOf(t),
      attemptsUsed |-> u] :
        a \in ProfileAttendance, t \in [1..3 -> ProfileScores],
        u \in ProfileAttempts}

ScoreInputs == (0 - ScoreMargin)..(100 + ScoreMargin)

NoProfile == BuildProfile(IdA, <<>>, <<>>, <<>>)
NoDistribution == [safe |-> 0, watchlist |-> 0, atRisk |-> 0]

\* useState<UploadState>({ attendance: null, assessment: null, attempts: null })
NoUpload == [attendance |-> <<>>, assessment |-> <<>>, attempts |-> <<>>]

\* the App before any file was chosen
AppIdle ==
    /\ uploadState = NoUpload
    /\ parsing = {}
    /\ studentProfiles = <<>>
    /\ riskDistribution = NoDistribution
    /\ isDismissed = FALSE
    /\ dismissedBefore = FALSE

-----------------------------------------------------------------------------
(* The state machine: arguments are chosen, then the functions are called *)

\* three lists are handed to the pipeline
InitPipeline ==
    /\ \E na \in 0..MaxRecords :
         \E ns \in 0..(MaxRecords - na) :
           \E nt \in 0..(MaxRecords - na - ns) :
             /\ attendance \in [1..na -> AttendanceRecords]
             /\ assessment \in [1..ns -> AssessmentRecords]
             /\ attempts \in [1..nt -> AttemptsRecords]
    /\ profile = NoProfile
    /\ score = 0
    /\ pc = "lists"

\* one profile is handed to calculateRiskScore
InitProfile ==
    /\ attendance = <<>> /\ assessment = <<>> /\ attempts = <<>>
    /\ profile \in ProfileInputs
    /\ score = 0
    /\ pc = "profile"

\* one number is handed to getRiskLevel
InitScore ==
    /\ attendance = <<>> /\ assessment = <<>> /\ attempts = <<>>
    /\ profile = NoProfile
    /\ score \in ScoreInputs
    /\ pc = "score"

Init ==
    /\ AppIdle
    /\ InitPipeline \/ InitProfile \/ InitScore
    /\ profiles = <<>>
    /\ riskProfiles = <<>>
    /\ distribution = NoDistribution
    /\ scored = <<>>
    /\ level = <<>>

MergeStudentData ==
    /\ pc = "lists"
    /\ profiles' = mergeStudentData(attendance, assessment, attempts)
    /\ pc' = "merged"
    /\ UNCHANGED <<attendance, assessment, attempts, riskProfiles, distribution,
                   profile, scored, score, level>>
    /\ UNCHANGED appVars

AnalyzeAllStudents ==
    /\ pc \in {"lists", "merged"}
    /\ profiles' = mergeStudentData(attendance, assessment, attempts)
    /\ riskProfiles' = analyzeAllStudents(attendance, assessment, attempts)
    /\ pc' = "analyzed"
    /\ UNCHANGED <<attendance, assessment, attempts, distribution,
                   profile, scored, score, level>>
    /\ UNCHANGED appVars

GetRiskDistribution ==
    /\ pc = "analyzed"
    /\ distribution' = getRiskDistribution(riskProfiles)
    /\ pc' = "counted"
    /\ UNCHANGED <<attendance, assessment, attempts, profiles, riskProfiles,
                   profile, scored, score, level>>
    /\ UNCHANGED appVars

CalculateRiskScore ==
    /\ pc = "profile"
    /\ scored' = <<calculateRiskScore(profile)>>
    /\ pc' = "scored"
    /\ UNCHANGED <<attendance, assessment, attempts, profiles, riskProfiles,
                   distribution, profile, score, level>>
    /\ UNCHANGED appVars

GetRiskLevel ==
    /\ pc = "score"
    /\ level' = <<getRiskLevel(score)>>
    /\ pc' = "levelled"
    /\ UNCHANGED <<attendance, assessment, attempts, profiles, riskProfiles,
                   distribution, profile, scored, score>>
    /\ UNCHANGED appVars

Next ==
    \/ MergeStudentData
    \/ AnalyzeAllStudents
    \/ GetRiskDistribution
    \/ CalculateRiskScore
    \/ GetRiskLevel

Spec == Init /\ [][Next]_vars

-----------------------------------------------------------------------------
(* The App component: three CSVUpload cards, the analysis, the AlertBanner *)

Sources == {"attendance", "assessment", "attempts"}

\* the non-empty lists a parsed file may hold, per source
UploadableLists(source) ==
    CASE source = "attendance" ->
           {<<[StudentID |-> IdA, AttendancePercentage |-> 60]>>,
            <<[StudentID |-> IdA, AttendancePercentage |-> 90]>>,
            <<[StudentID |-> IdA, AttendancePercentage |-> 90],
              [StudentID |-> IdZ, AttendancePercentage |-> 60]>>}
      [] source = "assessment" ->
           {<<[StudentID |-> IdA, TestScore1 |-> 30, TestScore2 |-> 25,
               TestScore3 |-> 20]>>,
            <<[StudentID |-> IdA, TestScore1 |-> 80, TestScore2 |-> 80,
               TestScore3 |-> 70]>>}
      [] source = "attempts" ->
           {<<[StudentID |-> IdA, AttemptsUsed |-> 2]>>,
            <<[StudentID |-> IdA, AttemptsUsed |-> 1]>>}

\* what Papa.parse will call back with for a chosen file: complete with rows,
\* complete with no row, or error
ParseOutcomes(source) ==
    {[source |-> source, callback |-> "complete", data |-> d] :
        d \in UploadableLists(source) \cup {<<>>}}
    \cup {[source |-> source, callback |-> "error", data |-> <<>>]}

\* uploadState.attendance && uploadState.assessment && uploadState.attempts
\* (null is falsy, an array is truthy)
IsDataComplete(us) ==
    us.attendance # <<>> /\ us.assessment # <<>> /\ us.attempts # <<>>

\* the useMemo of studentProfiles
StudentProfilesOf(us) ==
    IF ~IsDataComplete(us) THEN <<>>
    ELSE analyzeAllStudents(us.attendance[1], us.assessment[1], us.attempts[1])

\* a variant of the upload handlers that drops the other two sources
HandleUploadAlone(us, source, data) == [NoUpload EXCEPT ![source] = <<data>>]

\* handleAttendanceUpload, handleAssessmentUpload, handleAttemptsUpload:
\* prev => ({ ...prev, [source]: data })
HandleUpload(us, source, data) == [us EXCEPT ![source] = <<data>>]

\* a variant of the complete callback without the test for rows
OnCompleteUnguarded(us, source, data) == HandleUpload(us, source, data)

\* complete: if (results.data && results.data.length > 0) onDataLoaded(results.data)
OnComplete(us, source, data) ==
    IF Len(data) > 0 THEN HandleUpload(us, source, data) ELSE us

\* AlertBanner is rendered under isDataComplete only: its useState(false)
\* lives as long as it stays mounted and starts anew when it is mounted again
IsDismissedAfter(before, after, dismissed) ==
    IF IsDataComplete(before) /\ IsDataComplete(after) THEN dismissed ELSE FALSE

\* setUploadState(us) and the render that follows it
SetUploadState(us) ==
    /\ uploadState' = us
    /\ studentProfiles' = StudentProfilesOf(us)
    /\ riskDistribution' = getRiskDistribution(StudentProfilesOf(us))
    /\ isDismissed' = IsDismissedAfter(uploadState, us, isDismissed)

\* AlertBanner returns its markup
BannerShown ==
    /\ IsDataComplete(uploadState)
    /\ ~(riskDistribution.atRisk = 0 \/ isDismissed)

\* handleFileChange with a file: Papa.parse(file, ...) is started
ChooseFile ==
    /\ Cardinality(parsing) < MaxParsing
    /\ \E source \in Sources :
         \E outcome \in ParseOutcomes(source) :
            parsing' = parsing \cup {outcome}
    /\ UNCHANGED <<uploadState, studentProfiles, riskDistribution, isDismissed,
                   dismissedBefore>>
    /\ UNCHANGED pipelineVars

\* the complete callback of a parse
ParseComplete ==
    /\ \E p \in parsing :
          /\ p.callback = "complete"
          /\ parsing' = parsing \ {p}
          /\ SetUploadState(OnComplete(uploadState, p.source, p.data))
    /\ UNCHANGED dismissedBefore
    /\ UNCHANGED pipelineVars

\* the error callback of a parse: console.error and alert
ParseError ==
    /\ \E p \in parsing :
          /\ p.callback = "error"
          /\ parsing' = parsing \ {p}
    /\ UNCHANGED <<uploadState, studentProfiles, riskDistribution, isDismissed,
                   dismissedBefore>>
    /\ UNCHANGED pipelineVars

\* handleReset, from the button shown under isDataComplete
HandleReset ==
    /\ IsDataComplete(uploadState)
    /\ SetUploadState(NoUpload)
    /\ UNCHANGED <<parsing, dismissedBefore>>
    /\ UNCHANGED pipelineVars

\* the dismiss button of the banner: setIsDismissed(true)
Dismiss ==
    /\ BannerShown
    /\ isDismissed' = TRUE
    /\ dismissedBefore' = TRUE
    /\ UNCHANGED <<uploadState, parsing, studentProfiles, riskDistribution>>
    /\ UNCHANGED pipelineVars

InitApp ==
    /\ AppIdle
    /\ attendance = <<>> /\ assessment = <<>> /\ attempts = <<>>
    /\ profiles = <<>>
    /\ riskProfiles = <<>>
    /\ distribution = NoDistribution
    /\ profile = NoProfile
    /\ scored = <<>>
    /\ score = 0
    /\ level = <<>>
    /\ pc = "app"

NextApp ==
    \/ ChooseFile
    \/ ParseComplete
    \/ ParseError
    \/ HandleReset
    \/ Dismiss

SpecApp == InitApp /\ [][NextApp]_vars

-----------------------------------------------------------------------------
(* Vocabulary of the properties *)

IdsIn(list) == {list[i].StudentID : i \in 1..Len(list)}

UnionOfIds == IdsIn(attendance) \cup IdsIn(assessment) \cup IdsIn(attempts)

HasDuplicateId(list) ==
    \E i, j \in 1..Len(list) : i # j /\ list[i].StudentID = list[j].StudentID

Merged == pc \in {"merged", "analyzed", "counted"}

Analyzed == pc \in {"analyzed", "counted"}

\* the rearrangements of a list
PermutationsOf(list) ==
    {[i \in 1..Len(list) |-> list[f[i]]] : f \in Permutations(1..Len(list))}

\* C1: mergeStudentData returns exactly one profile per distinct studentId of
\* the union of the three sources: as many profiles as the union has IDs, no
\* studentId twice, duplicates inside a source and partly present IDs included.
C1_OneProfilePerStudent ==
    Merged =>
        /\ Len(profiles) = Cardinality(UnionOfIds)
        /\ {profiles[i].studentId : i \in 1..Len(profiles)} = UnionOfIds
        /\ \A i, j \in 1..Len(profiles) :
              i # j => profiles[i].studentId # profiles[j].studentId

\* a source holds one ID twice, and an ID is in one source and not in another
C1_Witness ==
    /\ pc = "merged"
    /\ HasDuplicateId(attendance)
    /\ IdsIn(assessment) \ IdsIn(attendance) # {}
    /\ Len(profiles) = 2

\* C2: a student without a record in a source gets that source's default
\* (attendance 0, testScores <<0,0,0>> and so averageScore 0, attemptsUsed 0);
\* a student with a record in a source gets that record's values, the three
\* test scores in the order TestScore1, TestScore2, TestScore3.
C2_DefaultsAndValues ==
    Merged =>
        \A k \in 1..Len(profiles) :
            LET p  == profiles[k]
                id == p.studentId
            IN  /\ IF id \in IdsIn(attendance)
                   THEN \E i \in 1..Len(attendance) :
                            /\ attendance[i].StudentID = id
                            /\ p.attendance = attendance[i].AttendancePercentage
                   ELSE p.attendance = 0
                /\ IF id \in IdsIn(assessment)
                   THEN \E i \in 1..Len(assessment) :
                            /\ assessment[i].StudentID = id
                            /\ p.testScores[1] = assessment[i].TestScore1
                            /\ p.testScores[2] = assessment[i].TestScore2
                            /\ p.testScores[3] = assessment[i].TestScore3
                            /\ Len(p.testScores) = 3
                   ELSE p.testScores = <<0, 0, 0>> /\ p.averageScore.num = 0
                /\ IF id \in IdsIn(attempts)
                   THEN \E i \in 1..Len(attempts) :
                            /\ attempts[i].StudentID = id
                            /\ p.attemptsUsed = attempts[i].AttemptsUsed
                   ELSE p.attemptsUsed = 0

\* one student has an attendance and an assessment record and no attempts
\* record, another has an attempts record only
C2_Witness ==
    /\ pc = "merged"
    /\ \E k \in 1..Len(profiles) :
          /\ profiles[k].studentId \in IdsIn(attendance) \cap IdsIn(assessment)
          /\ profiles[k].studentId \notin IdsIn(attempts)
          /\ profiles[k].attendance = 90
          /\ profiles[k].testScores = <<80, 70, 60>>
          /\ profiles[k].attemptsUsed = 0
    /\ \E k \in 1..Len(profiles) :
          /\ profiles[k].studentId \notin IdsIn(attendance) \cup IdsIn(assessment)
          /\ profiles[k].attendance = 0
          /\ profiles[k].testScores = <<0, 0, 0>>
          /\ profiles[k].attemptsUsed = 2

Points(triggered, n) == IF triggered THEN n ELSE 0

\* the sum of the points of the rules whose condition holds for p
SumOfTriggeredPoints(p) ==
    Points(p.attendance < 75, 30)
    + Points(p.averageScore.num < 40 * p.averageScore.den, 30)
    + Points(p.testScores[1] > p.testScores[2]
             /\ p.testScores[2] > p.testScores[3], 20)
    + Points(p.attemptsUsed >= 2, 20)

\* C3: the riskScore calculateRiskScore returns lies in 0..100 and is the sum
\* of the points of exactly the rules whose condition holds (30 attendance
\* below 75, 30 average below 40, 20 strictly declining, 20 attempts >= 2);
\* that sum never exceeds 100, so the cap changes nothing.
C3_ScoreIsSumOfRules ==
    /\ pc = "scored" =>
          /\ scored[1].riskScore \in 0..100
          /\ scored[1].riskScore = SumOfTriggeredPoints(profile)
    /\ Analyzed =>
          \A k \in 1..Len(riskProfiles) :
              /\ riskProfiles[k].riskScore \in 0..100
              /\ riskProfiles[k].riskScore = SumOfTriggeredPoints(riskProfiles[k])

\* a profile for which all four rules hold: the sum reaches the cap
C3_Witness ==
    /\ pc = "scored"
    /\ Len(scored[1].riskFlags) = 4
    /\ scored[1].riskScore = 100

\* the category the thresholds give a score
LevelOf(s) ==
    CASE s <= 30            -> "safe"
      [] s > 30 /\ s <= 60  -> "watchlist"
      [] s > 60             -> "at-risk"

\* C4: getRiskLevel gives safe up to 30, watchlist above 30 up to 60, at-risk
\* above 60, for every integer score (30 safe, 31 watchlist, 60 watchlist,
\* 61 at-risk), and every profile calculateRiskScore returns carries the
\* level of its own riskScore.
C4_LevelThresholds ==
    /\ pc = "levelled" =>
          /\ level[1] = LevelOf(score)
          /\ score = 30 => level[1] = "safe"
          /\ score = 31 => level[1] = "watchlist"
          /\ score = 60 => level[1] = "watchlist"
          /\ score = 61 => level[1] = "at-risk"
    /\ pc = "scored" => scored[1].riskLevel = LevelOf(scored[1].riskScore)
    /\ Analyzed =>
          \A k \in 1..Len(riskProfiles) :
              riskProfiles[k].riskLevel = LevelOf(riskProfiles[k].riskScore)

\* getRiskLevel was called on the upper boundary of the watchlist
C4_Witness ==
    /\ pc = "levelled"
    /\ score = 60
    /\ level = <<"watchlist">>

\* the analysed students that have an attendance record of 90 and no other
AttendanceOnly90 ==
    {k \in 1..Len(riskProfiles) :
        /\ riskProfiles[k].studentId \in IdsIn(attendance)
        /\ riskProfiles[k].studentId \notin IdsIn(assessment) \cup IdsIn(attempts)
        /\ riskProfiles[k].attendance = 90}

RuleNames(flags) == [i \in 1..Len(flags) |-> flags[i].rule]

\* what the scenario says of such a student, but for the level
ScenarioValues(p) ==
    /\ p.averageScore.num = 0
    /\ p.testScores = <<0, 0, 0>>
    /\ p.attemptsUsed = 0
    /\ RuleNames(p.riskFlags) = <<"Low Test Average">>
    /\ p.riskScore = 30

\* C5 as stated: a student present only in the attendance source, with
\* attendance 90, is analysed to average 0, scores <<0,0,0>>, no attempts,
\* the one flag Low Test Average, riskScore 30 and riskLevel watchlist.
C5_AsStated ==
    Analyzed =>
        \A k \in AttendanceOnly90 :
            /\ ScenarioValues(riskProfiles[k])
            /\ riskProfiles[k].riskLevel = "watchlist"

\* C5 amended: the same student, with riskLevel safe (30 is not above 30).
C5_AttendanceOnlyIsSafe ==
    Analyzed =>
        \A k \in AttendanceOnly90 :
            /\ ScenarioValues(riskProfiles[k])
            /\ riskProfiles[k].riskLevel = "safe"

\* the analysis of an input with such a student
C5_Witness ==
    /\ pc = "analyzed"
    /\ AttendanceOnly90 # {}

HasFlag(flags, rule) == \E i \in 1..Len(flags) : flags[i].rule = rule

\* C8: the Declining Trend flag is raised exactly when the first score is
\* above the second and the second above the third; <<80,80,70>> and the
\* default <<0,0,0>> do not raise it, <<80,70,60>> does.
C8_DecliningIffStrict ==
    pc = "scored" =>
        LET t        == profile.testScores
            declined == HasFlag(scored[1].riskFlags, "Declining Trend")
        IN  /\ declined <=> (t[1] > t[2] /\ t[2] > t[3])
            /\ t = <<80, 80, 70>> => ~declined
            /\ t = <<0, 0, 0>> => ~declined
            /\ t = <<80, 70, 60>> => declined

\* three strictly falling scores were scored
C8_Witness ==
    /\ pc = "scored"
    /\ profile.testScores = <<80, 70, 60>>
    /\ HasFlag(scored[1].riskFlags, "Declining Trend")

OneIf(triggered, rule) == IF triggered THEN <<rule>> ELSE <<>>

\* the names of the rules whose condition holds for p, in rule order
TriggeredRules(p) ==
    OneIf(p.attendance < 75, "Low Attendance")
    \o OneIf(p.averageScore.num < 40 * p.averageScore.den, "Low Test Average")
    \o OneIf(p.testScores[1] > p.testScores[2]
             /\ p.testScores[2] > p.testScores[3], "Declining Trend")
    \o OneIf(p.attemptsUsed >= 2, "Multiple Attempts")

PointsOfRule(rule) ==
    IF rule \in {"Low Attendance", "Low Test Average"} THEN 30 ELSE 20

\* C9: riskFlags holds one flag per rule whose condition holds and none for
\* the others, in the order Low Attendance, Low Test Average, Declining
\* Trend, Multiple Attempts, each rule decided by its own condition alone,
\* and the flags' points add up to riskScore.
C9_FlagsInRuleOrder ==
    pc = "scored" =>
        LET flags == scored[1].riskFlags
        IN  /\ RuleNames(flags) = TriggeredRules(profile)
            /\ \A i \in 1..Len(flags) : flags[i].points = PointsOfRule(flags[i].rule)
            /\ SumSeq([i \in 1..Len(flags) |-> flags[i].points])
                   = scored[1].riskScore

\* the second rule did not trigger while the first, third and fourth did
C9_Witness ==
    /\ pc = "scored"
    /\ RuleNames(scored[1].riskFlags)
           = <<"Low Attendance", "Declining Trend", "Multiple Attempts">>

PositionOf(ps, id) == CHOOSE k \in 1..Len(ps) : ps[k].studentId = id

StudentIdsOf(ps) == [i \in 1..Len(ps) |-> ps[i].studentId]

\* C6: analyzeAllStudents returns the profiles by riskScore, highest first,
\* and two students with the same riskScore stand as mergeStudentData put
\* them, which is in ascending studentId order.
C6_SortedByScoreThenId ==
    Analyzed =>
        \A i, j \in 1..Len(riskProfiles) :
            i < j =>
                /\ riskProfiles[i].riskScore >= riskProfiles[j].riskScore
                /\ riskProfiles[i].riskScore = riskProfiles[j].riskScore =>
                      /\ PositionOf(profiles, riskProfiles[i].studentId)
                             < PositionOf(profiles, riskProfiles[j].studentId)
                      /\ localeCompare(riskProfiles[i].studentId,
                                       riskProfiles[j].studentId) <= 0

\* the sort by score moved a student, and two students tie
C6_Witness ==
    /\ pc = "analyzed"
    /\ StudentIdsOf(riskProfiles) # StudentIdsOf(profiles)
    /\ \E i, j \in 1..Len(riskProfiles) :
          /\ i < j
          /\ riskProfiles[i].riskScore = riskProfiles[j].riskScore
          /\ localeCompare(riskProfiles[i].studentId,
                           riskProfiles[j].studentId) < 0

NoDuplicateIds ==
    ~HasDuplicateId(attendance) /\ ~HasDuplicateId(assessment)
    /\ ~HasDuplicateId(attempts)

SortedByStudentId(ps) ==
    \A i, j \in 1..Len(ps) :
        i < j => localeCompare(ps[i].studentId, ps[j].studentId) <= 0

\* every rearrangement of the three lists merges to the profiles at hand
SameForEveryPermutation ==
    \A a \in PermutationsOf(attendance) :
        \A s \in PermutationsOf(assessment) :
            \A t \in PermutationsOf(attempts) :
                mergeStudentData(a, s, t) = profiles

\* two different IDs of the input that localeCompare takes for equal
EquivalentIds ==
    \E x, y \in UnionOfIds : x # y /\ localeCompare(x, y) = 0

\* the IDs of the input in order of first appearance: attendance, then
\* assessment, then attempts
FirstAppearance(id) ==
    LET all == StudentIDsOf(attendance) \o StudentIDsOf(assessment)
               \o StudentIDsOf(attempts)
    IN  CHOOSE k \in 1..Len(all) :
            all[k] = id /\ \A m \in 1..(k - 1) : all[m] # id

\* C7 as stated: the merged profiles are in ascending studentId order
\* whatever the order of the records in the three lists: rearranging the
\* lists (no ID twice inside a list) gives the same sequence.
C7_AsStated ==
    (pc = "merged" /\ NoDuplicateIds) =>
        /\ SortedByStudentId(profiles)
        /\ SameForEveryPermutation

\* C7 amended: the merged profiles are in ascending localeCompare order of
\* studentId, IDs that compare as equal standing in order of first
\* appearance in the input; rearranging the lists (no ID twice inside a
\* list) gives the same sequence when no two different IDs compare as equal.
C7_SortedUpToEquivalentIds ==
    pc = "merged" =>
        /\ SortedByStudentId(profiles)
        /\ \A i, j \in 1..Len(profiles) :
              (i < j /\ localeCompare(profiles[i].studentId,
                                      profiles[j].studentId) = 0) =>
                  FirstAppearance(profiles[i].studentId)
                      < FirstAppearance(profiles[j].studentId)
        /\ (NoDuplicateIds /\ ~EquivalentIds) => SameForEveryPermutation

\* a list names two students in descending order, and no two IDs are
\* equivalent: the sort had to exchange them
C7_Witness ==
    /\ pc = "merged"
    /\ NoDuplicateIds
    /\ ~EquivalentIds
    /\ Len(attendance) = 2
    /\ localeCompare(attendance[1].StudentID, attendance[2].StudentID) > 0
    /\ Len(profiles) = 3

RECURSIVE NumberWithLevel(_, _)
NumberWithLevel(ps, l) ==
    IF ps = <<>> THEN 0
    ELSE (IF Head(ps).riskLevel = l THEN 1 ELSE 0) + NumberWithLevel(Tail(ps), l)

\* C10: the three counts getRiskDistribution returns are the numbers of
\* profiles of each riskLevel, they add up to the length of the list, and the
\* call leaves the list as it was.
C10_CountsPartitionTheList ==
    [][(pc = "analyzed" /\ pc' = "counted") =>
          /\ riskProfiles' = riskProfiles
          /\ distribution'.safe = NumberWithLevel(riskProfiles, "safe")
          /\ distribution'.watchlist = NumberWithLevel(riskProfiles, "watchlist")
          /\ distribution'.atRisk = NumberWithLevel(riskProfiles, "at-risk")
          /\ distribution'.safe + distribution'.watchlist + distribution'.atRisk
                 = Len(riskProfiles)]_vars

\* a list with a student of each level was counted
C10_Witness ==
    /\ pc = "counted"
    /\ distribution = [safe |-> 1, watchlist |-> 1, atRisk |-> 1]
    /\ Len(riskProfiles) = 3

\* the place of the last record of id in list
LastIndexOf(list, id) ==
    CHOOSE i \in 1..Len(list) :
        /\ list[i].StudentID = id
        /\ \A j \in (i + 1)..Len(list) : list[j].StudentID # id

\* the places of list whose record is followed by a record of the same ID
EarlierDuplicates(list) ==
    {i \in 1..Len(list) : LastIndexOf(list, list[i].StudentID) # i}

\* list with the record at an earlier-duplicate place exchanged for any other
\* record of the same student
EarlierRewritten(list, records) ==
    UNION {{[list EXCEPT ![i] = r] :
                r \in {x \in records : x.StudentID = list[i].StudentID}} :
           i \in EarlierDuplicates(list)}

C12_BannerReappears ==
    [][(/\ dismissedBefore
        /\ uploadState' # uploadState
        /\ IsDataComplete(uploadState')
        /\ riskDistribution'.atRisk > 0) => BannerShown']_vars

\* the part of C12 that is about a reset followed by uploads: the upload that
\* completes the data again after a dismissal and a reset shows the banner
C12_ReappearsAfterReset ==
    [][(/\ dismissedBefore
        /\ ~IsDataComplete(uploadState)
        /\ IsDataComplete(uploadState')
        /\ riskDistribution'.atRisk > 0) => BannerShown']_vars

\* the upload of the given source that the step completed, if any
Delivered(p) == p \in parsing /\ p \notin parsing'

\* C13: the analysed list is non-empty only when all three sources are
\* loaded, and is then analyzeAllStudents of the three loaded lists; a
\* completed upload with rows replaces its own source and no other; an upload
\* without rows or with a parse error changes no source; a reset empties the
\* three sources, the analysed list and the three counts.
C13_AppFollowsUploads ==
    [][/\ studentProfiles' # <<>> => IsDataComplete(uploadState')
       /\ IsDataComplete(uploadState') =>
             /\ studentProfiles' # <<>>
             /\ studentProfiles' = analyzeAllStudents(uploadState'.attendance[1],
                                                      uploadState'.assessment[1],
                                                      uploadState'.attempts[1])
       /\ \A source \in Sources :
             \A p \in ParseOutcomes(source) :
                Delivered(p) =>
                    IF p.callback = "complete" /\ p.data # <<>>
                    THEN /\ uploadState'[source] = <<p.data>>
                         /\ \A other \in Sources \ {source} :
                               uploadState'[other] = uploadState[other]
                    ELSE uploadState' = uploadState
       /\ parsing \subseteq parsing' =>
             \/ uploadState' = uploadState
             \/ /\ uploadState' = NoUpload
                /\ studentProfiles' = <<>>
                /\ riskDistribution' = NoDistribution
      ]_vars

\* two sources were loaded, replaced and reset before: all three are loaded,
\* two students are analysed, one of them at risk, and a parse that will
\* report an error is still running
C13_Witness ==
    /\ IsDataComplete(uploadState)
    /\ Len(uploadState.attendance[1]) = 2
    /\ Len(studentProfiles) = 2
    /\ riskDistribution = [safe |-> 0, watchlist |-> 1, atRisk |-> 1]
    /\ dismissedBefore
    /\ \E p \in parsing : p.callback = "error"

=============================================================================
